---- MODULE Spec2Model ----
(***************************************************************************)
(* A model of the validation engine of zestack/v: the value validator      *)
(* (Valuer), the branch matcher (Matcher), the collection iteration rules  *)
(* (Every / Some over the elements of a value) and the composition         *)
(* primitives (Validate, Some over whole validators).                      *)
(*                                                                         *)
(* User callbacks (predicates, handlers, validators) are inputs: what a    *)
(* callback returns is chosen when the engine invokes it.                  *)
(***************************************************************************)
EXTENDS Integers, Sequences, FiniteSets, TLC

\* ---------------------------------------------------------------- bounds
MaxChecks == 2      \* checks (requires + rules) attached to one Valuer
MaxWith == 2        \* values given to one RequiredWith
MaxItems == 3       \* elements of an iterated sequence or record
MaxMapItems == 2    \* entries of an iterated mapping (walked in any order)
MaxBranches == 2    \* branches of one Matcher
MaxValidators == 3  \* validators given to one composition primitive
MaxGroups == 3      \* groups given to one IndexBy
MaxMembers == 2     \* members of one group
MaxAdds == 3        \* calls of Add on one Errors collection

\* ---------------------------------------------------------------- values
\* A Go value as far as the engine looks at it: its kind, a payload x (the
\* integer, the pointee, or the number of elements) and whether is.Empty
\* reports it empty.
Val(kind, x, emp) == [kind |-> kind, x |-> x, emp |-> emp]

NilValue == Val("nil", 0, TRUE)

Ints == {Val("int", n, n = 0) : n \in 0..3}

\* A typed nil pointer; is.Empty is an external predicate, so both of its
\* possible answers are kept.
NilPtrs == {Val("nilptr", 0, e) : e \in BOOLEAN}

Ptrs == {Val("ptr", 1, FALSE)}

Collections ==
    {Val("seq", 0, TRUE)}
    \cup {Val(kind, n, FALSE) : kind \in {"seq", "struct"}, n \in 1..MaxItems}
    \cup {Val("map", n, FALSE) : n \in 1..MaxMapItems}

Values == {NilValue} \cup Ints \cup NilPtrs \cup Ptrs \cup Collections

IsEmpty(val) == val.emp

\* rv.Elem().Interface() of a non-nil pointer
Deref(val) == IF val.kind = "ptr" THEN Val("int", val.x, val.x = 0) ELSE val

\* ---------------------------------------------------------------- errors
NoErr == [kind |-> "nil"]

\* The zero Error with a code. A text (format, message, parameter value) is
\* a sequence of tokens; a token "{name}" is a placeholder.
ZeroError(code) ==
    [kind |-> "Error", error |-> NoErr, code |-> code, format |-> <<>>,
     params |-> {}, field |-> "", label |-> "", value |-> NilValue]

ErrorFormat(format) == [opt |-> "format", format |-> format]
ErrorCode(code) == [opt |-> "code", code |-> code]
ErrorParam(key, value) == [opt |-> "param", key |-> key, value |-> value]

\* option(&e)
ApplyOption(e, o) ==
    CASE o.opt = "format" -> [e EXCEPT !.format = o.format]
      [] o.opt = "code" -> [e EXCEPT !.code = o.code]
      [] o.opt = "param" ->
            [e EXCEPT !.params =
                {p \in e.params : p.key # o.key}
                \cup {[key |-> o.key, value |-> o.value]}]

RECURSIVE ApplyOptions(_, _)
ApplyOptions(e, options) ==
    IF options = <<>> THEN e
    ELSE ApplyOptions(ApplyOption(e, Head(options)), Tail(options))

NewError(code, options) == ApplyOptions(ZeroError(code), options)

isBuiltinError(err) == err.kind \in {"Error", "Errors"}

\* (v *Valuer).newError
newError(vr, code, options) ==
    [NewError(code, options) EXCEPT
        !.label = vr.label, !.value = vr.value, !.field = vr.field]

\* (v *Valuer).mistake
mistake(vr, err, options) ==
    IF err.kind = "Error" THEN err
    ELSE ApplyOptions(
            [ZeroError("") EXCEPT
                !.error = err, !.field = vr.field,
                !.label = vr.label, !.value = vr.value],
            options)

\* ---------------------------------------------------------------- messages
\* translations: the entries the model's codes can meet, by code. The texts
\* of the table are rendered in ASCII.
TranslatedCodes ==
    {"required", "required_if", "typeof", "greater_than", "some", "every",
     "index_by"}

translations ==
    [code \in TranslatedCodes |->
        CASE code \in {"required", "required_if"} ->
                [message |-> <<"{label}", " is required">>, trans |-> "nil"]
          [] code = "typeof" -> [message |-> <<>>, trans |-> "typeof"]
          [] code = "greater_than" ->
                [message |-> <<"{label}", " must be greater than ", "{min}">>, trans |-> "nil"]
          [] code = "some" ->
                [message |-> <<"{label}", ": at least one item must pass">>, trans |-> "nil"]
          [] code = "every" ->
                [message |-> <<"{label}", ": every item must pass">>, trans |-> "nil"]
          [] code = "index_by" -> [message |-> <<"incomplete arguments">>, trans |-> "nil"]]

\* types, by the name of the reflect.Kind
types ==
    [kind \in {"bool", "int", "string", "slice", "map", "struct"} |->
        CASE kind = "bool" -> "a boolean"
          [] kind = "int" -> "an integer"
          [] kind = "string" -> "a string"
          [] kind = "slice" -> "a slice"
          [] kind = "map" -> "a map"
          [] kind = "struct" -> "a struct"]

\* fmt.Sprintf("%v", value) of a model value, as a text
Sprint(val) ==
    CASE val.kind = "nil" -> <<"<nil>">>
      [] val.kind = "int" ->
            << CASE val.x = 0 -> "0" [] val.x = 1 -> "1"
                 [] val.x = 2 -> "2" [] OTHER -> "3" >>
      [] val.kind = "nilptr" -> <<"<nil>">>
      [] val.kind = "ptr" -> <<"0xc000012345">>
      [] OTHER -> <<"[", "...", "]">>

Text(str) == IF str = "" THEN <<>> ELSE <<str>>

\* The params Error.String() works on: a copy of e.params with label and
\* value set.
StringParams(e) ==
    {p \in e.params : p.key \notin {"label", "value"}}
    \cup {[key |-> "label", value |-> Text(e.label)],
          [key |-> "value", value |-> Sprint(e.value)]}

ParamValue(params, key) == (CHOOSE p \in params : p.key = key).value

\* typeof, the translator of code "typeof"
typeof(message, params) ==
    LET kind == ParamValue(params, "kind") IN
    IF Len(kind) = 1 /\ kind[1] \in DOMAIN types
    THEN ParamValue(params, "label") \o <<" is not ", types[kind[1]]>>
    ELSE ParamValue(params, "label") \o <<" has the wrong type">>

\* strings.ReplaceAll(message, "{" + key + "}", value) on the tokens
RECURSIVE ReplaceAll(_, _, _)
ReplaceAll(message, key, value) ==
    IF message = <<>> THEN <<>>
    ELSE (IF Head(message) = "{" \o key \o "}" THEN value ELSE <<Head(message)>>)
         \o ReplaceAll(Tail(message), key, value)

\* The loop over params of Error.String(), taking the keys in `order`.
RECURSIVE substitute(_, _, _)
substitute(message, params, order) ==
    IF order = <<>> THEN message
    ELSE substitute(
            IF \E p \in params : p.key = Head(order)
            THEN ReplaceAll(message, Head(order), ParamValue(params, Head(order)))
            ELSE message,
            params, Tail(order))

\* (e *Error).String(): one line. No default translator is set. `order` is
\* the order in which the map of params is walked.
ErrorString(e, order) ==
    LET found == e.code \in DOMAIN translations
        message == IF found /\ e.format = <<>>
                   THEN translations[e.code].message ELSE e.format
        params == StringParams(e)
    IN  IF found /\ translations[e.code].trans # "nil"
        THEN typeof(message, params)
        ELSE substitute(message, params, order)

\* The orders a Go map with the keys S can be walked in.
Orders(S) ==
    {o \in [1..Cardinality(S) -> S] : \A a, b \in DOMAIN o : o[a] = o[b] => a = b}

ParamKeys == {"label", "value"}

\* ---------------------------------------------------------------- Errors
\* (e *Errors).IsEmpty on the sequence e.errors
ErrorsIsEmpty(errors) == Len(errors) = 0

\* ErrorsAdd appending a collection as one element instead of flattening it.
ErrorsAddNested(errors, err) ==
    IF err = NoErr THEN errors
    ELSE IF err.kind = "Error" THEN Append(errors, err)
    ELSE Append(errors, [ZeroError("") EXCEPT !.error = err])

\* ErrorsAdd putting the elements of a collection in front.
ErrorsAddInFront(errors, err) ==
    IF err = NoErr THEN errors
    ELSE IF err.kind = "Errors" THEN err.errors \o errors
    ELSE IF err.kind = "Error" THEN Append(errors, err)
    ELSE Append(errors, [ZeroError("") EXCEPT !.error = err])

\* (e *Errors).Add
ErrorsAdd(errors, err) ==
    IF err = NoErr THEN errors
    ELSE IF err.kind = "Errors"
    THEN IF ~ErrorsIsEmpty(err.errors) THEN errors \o err.errors ELSE errors
    ELSE IF err.kind = "Error" THEN Append(errors, err)
    ELSE Append(errors, [ZeroError("") EXCEPT !.error = err])

Fields(errors) == {errors[j].field : j \in DOMAIN errors}

SelectField(errors, field) ==
    LET test(e) == e.field = field IN SelectSeq(errors, test)

\* (e *Errors).ToMap
ToMap(errors) == [field \in Fields(errors) |-> SelectField(errors, field)]

RECURSIVE joinGroups(_, _, _)
joinGroups(errsMap, groups, order) ==
    IF groups = <<>> THEN <<>>
    ELSE [j \in DOMAIN errsMap[Head(groups)] |->
            ErrorString(errsMap[Head(groups)][j], order)]
         \o joinGroups(errsMap, Tail(groups), order)

\* (e *Errors).String(), as the lines of the string: the groups of ToMap are
\* walked in the order `groups`. The empty string is one empty line.
ErrorsString(errors, groups, order) ==
    IF ErrorsIsEmpty(errors) THEN << <<>> >>
    ELSE joinGroups(ToMap(errors), groups, order)

\* (e *Error).Error(), as lines, of an Error whose cause, if any, is an
\* error of another type
ErrorError(e, order) ==
    IF e.error # NoErr /\ e.error.kind = "foreign" THEN e.error.msg
    ELSE << ErrorString(e, order) >>

\* ---------------------------------------------------------------- inputs
\* Errors a user callback can hand to the engine.
UserError ==
    [ZeroError("user") EXCEPT !.field = "other", !.label = "Other"]
UserErrors == [kind |-> "Errors", errors |-> <<UserError>>]
\* An error of another type, as errors.New(msg) makes it; msg is a sequence
\* of lines.
errorsNew(msg) == [kind |-> "foreign", msg |-> msg]
Foreign == errorsNew(<< <<"boom">> >>)

\* What a callback returning `any` can return.
Res(t, b, err) == [t |-> t, b |-> b, err |-> err]
ResBool(b) == Res("bool", b, NoErr)
ResNil == Res("nil", FALSE, NoErr)
ResError(err) == Res("error", FALSE, err)
ResValidatable(err) == Res("validatable", FALSE, err)  \* err: what its Validate() returns
ResOther == Res("other", FALSE, NoErr)

Results ==
    {ResBool(TRUE), ResBool(FALSE), ResNil, ResOther}
    \cup {ResError(e) : e \in {UserError, UserErrors, Foreign}}
    \cup {ResValidatable(e) : e \in {NoErr, UserError, Foreign}}

OptionLists == {<<>>, <<ErrorCode("override")>>}

\* ---------------------------------------------------------------- state
VARIABLES
    v,        \* the Valuer: field, label, value, requires, rules
    pc,       \* where the evaluation stands
    i,        \* position in the list Validate() is walking
    invoked,  \* the checks Validate() has invoked, in order
    returned, \* what the invoked checks returned, in order
    result,   \* what Validate() returned
    ruleErr,  \* what the rule being invoked returned
    handled,  \* the answers of the callback of the running rule: the items
              \* the Every/Some handler was invoked on (item 0: Custom's check)
    rest,     \* items the running Every/Some has not iterated yet
    m,        \* the Matcher built by a Match rule
    called,   \* handlers Matcher.Validate() has invoked (0 is the fallback)
    validators,  \* the arguments of the running composition primitive
    op,       \* the composition primitive that runs
    tpc,      \* where the composition primitive stands
    at,       \* position in validators
    errs,     \* its Errors collection: the sequence errs.errors
    hasOk,    \* Some: a validator has passed
    ran,      \* validators whose Validate() was invoked, in order
    out,      \* what the composition primitive returned
    ibValues,   \* IndexBy: the groups
    ibOptions,  \* IndexBy: its options
    index,    \* IndexBy: the caller's variable behind the output parameter
    gi,       \* IndexBy: position in values
    ibpc,     \* IndexBy: where the Checker it returned stands
    ibOut,    \* IndexBy: what the Checker returned
    coll,     \* an Errors collection: the sequence e.errors
    before,   \* coll before the last call of Add
    added,    \* the argument of the last call of Add
    adds,     \* calls of Add so far
    renders,  \* what the calls of String() on coll returned, in order
    serr,     \* the Error whose String() runs
    smsg,     \* String(): message
    sparams,  \* String(): params
    stodo,    \* String(): keys of params the loop has not walked yet
    spc,      \* String(): where it stands
    shared,   \* a built Valuer that several threads evaluate
    captured, \* the variable `options` captured by the closure of its Typeof rule
    options0, \* the options Typeof was called with
    th,       \* per thread: where its Validate() stands, its local slice, its result
    accessed  \* the memory accesses made so far: <<thread, location, "r" or "w">>

topVars == <<validators, op, tpc, at, errs, hasOk, ran, out>>
valuerVars == <<v, pc, i, invoked, returned, result, ruleErr, handled, rest, m, called>>
ibVars == <<ibValues, ibOptions, index, gi, ibpc, ibOut>>
esVars == <<coll, before, added, adds, renders>>
strVars == <<serr, smsg, sparams, stodo, spc>>
raceVars == <<shared, captured, options0, th, accessed>>
libVars == <<ibVars, esVars, strVars, raceVars>>
vars == <<valuerVars, topVars, libVars>>

NoResult == [kind |-> "none"]
NoMatcher == [kind |-> "none"]

\* Value(value, field, label)
Value(value, field, label) ==
    [field |-> field, label |-> label, value |-> value,
     requires |-> <<>>, rules |-> <<>>]

\* No composition primitive runs.
TopIdle ==
    /\ validators = <<>>
    /\ op = "none"
    /\ tpc = "idle"
    /\ at = 0
    /\ errs = <<>>
    /\ hasOk = FALSE
    /\ ran = <<>>
    /\ out = NoResult

\* The caller's variable before IndexBy has written it.
NoIndex == -1

\* No Checker of IndexBy runs.
IndexByIdle ==
    /\ ibValues = <<>>
    /\ ibOptions = <<>>
    /\ index = NoIndex
    /\ gi = 0
    /\ ibpc = "idle"
    /\ ibOut = NoResult

\* A new Errors collection.
ErrorsNew ==
    /\ coll = <<>>
    /\ before = <<>>
    /\ added = NoErr
    /\ adds = 0
    /\ renders = <<>>

\* No String() of an Error runs.
StringIdle ==
    /\ serr = NoErr
    /\ smsg = <<>>
    /\ sparams = {}
    /\ stodo = {}
    /\ spc = "idle"

Threads == {1, 2}

\* No thread runs.
ThreadsIdle ==
    /\ shared = Value(NilValue, "name", "Name")
    /\ captured = <<>>
    /\ options0 = <<>>
    /\ th = [t \in Threads |-> [pc |-> "idle", local |-> <<>>, overlap |-> FALSE, res |-> NoResult]]
    /\ accessed = {}

LibIdle == IndexByIdle /\ ErrorsNew /\ StringIdle /\ ThreadsIdle

Init ==
    /\ TopIdle
    /\ LibIdle
    /\ \E value \in Values : v = Value(value, "name", "Name")
    /\ pc = "build"
    /\ i = 0
    /\ invoked = <<>>
    /\ returned = <<>>
    /\ result = NoResult
    /\ ruleErr = NoErr
    /\ handled = <<>>
    /\ rest = {}
    /\ m = NoMatcher
    /\ called = <<>>

Building == pc = "build" /\ Len(v.requires) + Len(v.rules) < MaxChecks

evalVars ==
    <<pc, i, invoked, returned, result, ruleErr, handled, rest, m, called,
      topVars, libVars>>

\* ---------------------------------------------------------------- builder
addRequire(check) ==
    /\ Building
    /\ v' = [v EXCEPT !.requires = Append(@, check)]
    /\ UNCHANGED evalVars

addRule(rule) ==
    /\ Building
    /\ v' = [v EXCEPT !.rules = Append(@, rule)]
    /\ UNCHANGED evalVars

Required ==
    \E options \in OptionLists :
        addRequire([kind |-> "required", options |-> options])

RequiredIf ==
    \E condition \in BOOLEAN :
        addRequire([kind |-> "required_if", condition |-> condition,
                    options |-> <<>>])

WithValues == UNION {[1..n -> {Val("int", 0, TRUE), Val("int", 1, FALSE)}] : n \in 0..MaxWith}

RequiredWith ==
    \E values \in WithValues :
        addRequire([kind |-> "required_with", values |-> values,
                    options |-> <<>>])

simple ==
    addRule([kind |-> "simple", code |-> "is_email", options |-> <<>>])

Custom ==
    \E options \in OptionLists :
        addRule([kind |-> "custom", code |-> "code", options |-> options])

\* itemize(handle, every, options)
itemize(every, options) ==
    addRule([kind |-> "itemize", every |-> every, options |-> options])

ValuerEvery == itemize(TRUE, <<>>)

ValuerSome == itemize(FALSE, <<>>)

ValuerMatch ==
    addRule([kind |-> "match"])

\* ---------------------------------------------------------------- Validate
Returned(err) == [kind |-> "returned", err |-> err]
Panicked == [kind |-> "panic"]

finish(res) ==
    /\ pc' = "done"
    /\ result' = res

\* whichList with the emptiness test inverted.
whichListInverted(vr) ==
    IF ~IsEmpty(vr.value) /\ vr.value.kind \in {"nil", "nilptr"} THEN "none"
    ELSE IF ~IsEmpty(vr.value) THEN "requires"
    ELSE "rules"

\* The list Validate() walks: the emptiness test and the nil tests.
whichList(vr) ==
    IF IsEmpty(vr.value) THEN "requires"
    ELSE IF vr.value.kind \in {"nil", "nilptr"} THEN "none"
    ELSE "rules"

\* Validate() up to the first check.
ValidateBegin ==
    /\ pc = "build"
    /\ LET list == whichList(v) IN
        IF \/ list = "none"
           \/ list = "requires" /\ v.requires = <<>>
           \/ list = "rules" /\ v.rules = <<>>
        THEN finish(Returned(NoErr)) /\ i' = 0
        ELSE pc' = list /\ i' = 1 /\ UNCHANGED result
    /\ UNCHANGED <<topVars, libVars, v, invoked, returned, ruleErr, handled, rest, m, called>>

\* requiredWith failing only when every value is non-empty.
requiredWithAll(vr, values, options) ==
    IF values # <<>> /\ \A n \in DOMAIN values : ~IsEmpty(values[n])
    THEN newError(vr, "required_with", options)
    ELSE NoErr

\* The closure RequiredWith appends.
RECURSIVE requiredWith(_, _, _)
requiredWith(vr, values, options) ==
    IF values = <<>> THEN NoErr
    ELSE IF ~IsEmpty(Head(values))
         THEN newError(vr, "required_with", options)
         ELSE requiredWith(vr, Tail(values), options)

\* require(): what a check of the requires list returns.
require(vr, check) ==
    CASE check.kind = "required" -> newError(vr, "required", check.options)
      [] check.kind = "required_if" ->
            IF check.condition
            THEN newError(vr, "required_if", check.options)
            ELSE NoErr
      [] check.kind = "required_with" ->
            requiredWith(vr, check.values, check.options)

\* RequireStep without the early return: the loop goes on after a failure and
\* the last check decides.
RequireStepNoStop ==
    /\ pc = "requires"
    /\ invoked' = Append(invoked, [list |-> "requires", idx |-> i])
    /\ LET err == require(v, v.requires[i]) IN
        /\ returned' = Append(returned, err)
        /\ IF i = Len(v.requires)
           THEN finish(Returned(err)) /\ UNCHANGED i
           ELSE i' = i + 1 /\ UNCHANGED <<pc, result>>
    /\ UNCHANGED <<topVars, libVars, v, ruleErr, handled, rest, m, called>>

\* One turn of the loop over v.requires.
RequireStep ==
    /\ pc = "requires"
    /\ invoked' = Append(invoked, [list |-> "requires", idx |-> i])
    /\ LET err == require(v, v.requires[i]) IN
        /\ returned' = Append(returned, err)
        /\ IF err # NoErr THEN finish(Returned(err)) /\ UNCHANGED i
           ELSE IF i = Len(v.requires)
           THEN finish(Returned(NoErr)) /\ UNCHANGED i
           ELSE i' = i + 1 /\ UNCHANGED <<pc, result>>
    /\ UNCHANGED <<topVars, libVars, v, ruleErr, handled, rest, m, called>>

\* rule(value) is entered: the rule is logged and its body starts.
enter(kind) ==
    /\ pc = "rules"
    /\ v.rules[i].kind = kind
    /\ invoked' = Append(invoked, [list |-> "rules", idx |-> i])

\* One turn of the loop over v.rules, after the rule returned.
RuleReturn ==
    /\ pc = "ruled"
    /\ IF ruleErr # NoErr THEN finish(Returned(ruleErr)) /\ UNCHANGED i
       ELSE IF i = Len(v.rules) THEN finish(Returned(NoErr)) /\ UNCHANGED i
       ELSE i' = i + 1 /\ pc' = "rules" /\ UNCHANGED result
    /\ returned' = Append(returned, ruleErr)
    /\ ruleErr' = NoErr
    /\ handled' = <<>>
    /\ rest' = {}
    /\ m' = NoMatcher
    /\ called' = <<>>
    /\ UNCHANGED <<topVars, libVars, v, invoked>>

panic ==
    /\ pc' = "panic"
    /\ result' = Panicked

\* The rule simple() appends; check(val) is the predicate's answer.
simpleRule(vr, rule, ok) ==
    IF ok THEN NoErr ELSE newError(vr, rule.code, rule.options)

SimpleRule ==
    /\ enter("simple")
    /\ \E ok \in BOOLEAN :
        /\ ruleErr' = simpleRule(v, v.rules[i], ok)
        /\ pc' = "ruled"
    /\ UNCHANGED <<topVars, libVars, v, i, returned, result, handled, rest, m, called>>

\* The rule Custom appends, given what check(val) returned.
customPanics(res) == res.t \in {"validatable", "other"}

\* customRule without the isBuiltinError test: every error is wrapped.
customRuleWrapAll(vr, rule, res) ==
    IF res.t = "bool" /\ ~res.b THEN newError(vr, rule.code, rule.options)
    ELSE IF (res.t = "bool" /\ res.b) \/ res.t = "nil" THEN NoErr
    ELSE [newError(vr, rule.code, rule.options) EXCEPT !.error = res.err]

customRule(vr, rule, res) ==
    IF res.t = "bool" /\ ~res.b THEN newError(vr, rule.code, rule.options)
    ELSE IF (res.t = "bool" /\ res.b) \/ res.t = "nil" THEN NoErr
    ELSE IF isBuiltinError(res.err) THEN res.err
    ELSE [newError(vr, rule.code, rule.options) EXCEPT !.error = res.err]

CustomRule ==
    /\ enter("custom")
    /\ \E res \in Results :
        /\ handled' = <<[item |-> 0, res |-> res]>>
        /\ IF customPanics(res)
           THEN panic /\ UNCHANGED ruleErr
           ELSE /\ ruleErr' = customRule(v, v.rules[i], res)
                /\ pc' = "ruled"
                /\ UNCHANGED result
    /\ UNCHANGED <<topVars, libVars, v, i, returned, rest, m, called>>

\* ---------------------------------------------------------------- itemize
\* itemizeCheck taking false as "not a success" under Every too.
itemizeCheckLenient(vr, rule, res) ==
    IF res.t = "validatable"
    THEN [skip |-> FALSE, err |-> res.err, panics |-> FALSE]
    ELSE IF (res.t = "bool" /\ res.b) \/ res.t = "nil"
    THEN [skip |-> ~rule.every, err |-> NoErr, panics |-> FALSE]
    ELSE IF res.t = "bool" /\ ~res.b /\ rule.every
    THEN [skip |-> FALSE, err |-> NoErr, panics |-> FALSE]
    ELSE IF res.t = "error"
    THEN [skip |-> FALSE, err |-> mistake(vr, res.err, rule.options),
          panics |-> FALSE]
    ELSE [skip |-> FALSE, err |-> NoErr, panics |-> TRUE]

\* The closure `check` of itemize: how one answer of the handler is read.
itemizeCheck(vr, rule, res) ==
    IF res.t = "validatable"
    THEN [skip |-> FALSE, err |-> res.err, panics |-> FALSE]
    ELSE IF (res.t = "bool" /\ res.b) \/ res.t = "nil"
    THEN [skip |-> ~rule.every, err |-> NoErr, panics |-> FALSE]
    ELSE IF res.t = "bool" /\ ~res.b /\ rule.every
    THEN [skip |-> FALSE, err |-> newError(vr, "every", rule.options),
          panics |-> FALSE]
    ELSE IF res.t = "error"
    THEN [skip |-> FALSE, err |-> mistake(vr, res.err, rule.options),
          panics |-> FALSE]
    ELSE [skip |-> FALSE, err |-> NoErr, panics |-> TRUE]

Min(S) == CHOOSE x \in S : \A y \in S : x <= y

\* The items the loop can take next: a sequence and a record are walked in
\* index order, a mapping in any order.
NextItems(val, left) == IF val.kind = "map" THEN left ELSE {Min(left)}

\* The rule of itemize is entered: the shape of the value is examined.
ItemizeBegin ==
    /\ enter("itemize")
    /\ LET a == Deref(v.value) IN
        IF a.kind \notin {"seq", "map", "struct"}
        THEN panic /\ UNCHANGED rest
        ELSE /\ rest' = 1..a.x
             /\ pc' = "itemize"
             /\ UNCHANGED result
    /\ handled' = <<>>
    /\ UNCHANGED <<topVars, libVars, v, i, returned, ruleErr, m, called>>

\* One turn of the loop over the items: handle(item), then check's verdict.
ItemStep ==
    /\ pc = "itemize"
    /\ \E k \in NextItems(Deref(v.value), rest), res \in Results :
        LET c == itemizeCheck(v, v.rules[i], res) IN
        /\ handled' = Append(handled, [item |-> k, res |-> res])
        /\ rest' = rest \ {k}
        /\ IF c.panics THEN panic /\ UNCHANGED ruleErr
           ELSE IF c.err # NoErr
           THEN /\ ruleErr' = mistake(v, c.err, <<>>)
                /\ pc' = "ruled"
                /\ UNCHANGED result
           ELSE /\ pc' = IF c.skip \/ rest' = {} THEN "itemized" ELSE "itemize"
                /\ UNCHANGED <<ruleErr, result>>
    /\ UNCHANGED <<topVars, libVars, v, i, invoked, returned, m, called>>

\* What the rule returns once the loop is left without an error.
itemizeEnd(vr, rule) ==
    IF rule.every THEN NoErr ELSE newError(vr, "some", rule.options)

ItemizeEnd ==
    /\ pc = "itemized"
    /\ ruleErr' = itemizeEnd(v, v.rules[i])
    /\ pc' = "ruled"
    /\ UNCHANGED <<topVars, libVars, v, i, invoked, returned, result, handled, rest, m, called>>

\* ---------------------------------------------------------------- Matcher
Candidates == {Val("int", n, FALSE) : n \in 1..2}

\* Match(value, field, label)
MatchOf(value, field, label) ==
    [kind |-> "Matcher", field |-> field, label |-> label, value |-> value,
     branches |-> <<>>, fallback |-> FALSE]

compare(a, b) == a = b

\* What a handler can return for the fresh valuer it is given: nothing, or a
\* failure of that valuer.
HandlerReturns(valuer) == {NoErr, newError(valuer, "branch", <<>>)}

\* Matcher.Validate from branch j on: the handler it invokes, if any (0 is
\* the fallback).
RECURSIVE matcherScan(_, _)
matcherScan(mm, j) ==
    IF j > Len(mm.branches)
    THEN IF mm.fallback THEN <<0>> ELSE <<>>
    ELSE IF compare(mm.value, mm.branches[j].value) THEN <<j>>
    ELSE matcherScan(mm, j + 1)

\* matcherValidate trying the fallback before the branches.
matcherValidateFallbackFirst(mm) ==
    IF mm.fallback THEN <<0>> ELSE matcherScan(mm, 1)

matcherValidate(mm) == matcherScan(mm, 1)

\* The rule Match appends is entered: it builds the Matcher and hands it to
\* the configuring callback.
MatchBegin ==
    /\ enter("match")
    /\ m' = MatchOf(v.value, v.field, v.label)
    /\ pc' = "match"
    /\ UNCHANGED <<topVars, libVars, v, i, returned, result, ruleErr, handled, rest, called>>

\* m.Branch(value, handle); the handler of a branch is known by its position.
Branch ==
    /\ pc = "match"
    /\ Len(m.branches) < MaxBranches
    /\ \E value \in Candidates :
        m' = [m EXCEPT !.branches = Append(@, [value |-> value])]
    /\ UNCHANGED <<topVars, libVars, v, pc, i, invoked, returned, result, ruleErr, handled, rest, called>>

\* m.Fallback(handle)
Fallback ==
    /\ pc = "match"
    /\ m' = [m EXCEPT !.fallback = TRUE]
    /\ UNCHANGED <<topVars, libVars, v, pc, i, invoked, returned, result, ruleErr, handled, rest, called>>

\* m.Validate(): the scan, and the call of the handler it selects.
MatcherValidate ==
    /\ pc = "match"
    /\ called' = matcherValidate(m)
    /\ IF called' = <<>>
       THEN ruleErr' = NoErr
       ELSE \E err \in HandlerReturns(Value(m.value, m.field, m.label)) :
                ruleErr' = err
    /\ pc' = "ruled"
    /\ UNCHANGED <<topVars, libVars, v, i, invoked, returned, result, handled, rest, m>>

\* ---------------------------------------------------------------- composition
NilValidator == [kind |-> "nil"]

\* A Checker whose function returns ret.
Checker(ret) == [kind |-> "checker", ret |-> ret]

\* The failure of a Valuer of an empty value with one require check.
Failure(field, label, code) ==
    newError(Value(Val("int", 0, TRUE), field, label), code, <<>>)

Failures ==
    {Failure("name", "Name", "required"), Failure("age", "Age", "required"),
     Failure("name", "Name", "required_with"),
     [kind |-> "Errors",
      errors |-> <<Failure("name", "Name", "required"),
                   Failure("age", "Age", "required_if")>>],
     Foreign}

Validators == {NilValidator} \cup {Checker(ret) : ret \in {NoErr} \cup Failures}

ValidatorLists == UNION {[1..n -> Validators] : n \in 0..MaxValidators}

\* (c Checker).Validate()
CheckerValidate(c) == c.ret

\* Validate(validations...): the call, with its arguments.
ValidateCall ==
    /\ tpc = "idle"
    /\ \E validations \in ValidatorLists :
        /\ validators' = validations
        /\ tpc' = IF validations = <<>> THEN "return" ELSE "loop"
    /\ op' = "Validate"
    /\ errs' = <<>>
    /\ at' = 1
    /\ UNCHANGED <<valuerVars, libVars, hasOk, ran, out>>

\* One turn of the loop of Validate.
ValidateStep ==
    /\ tpc = "loop"
    /\ op = "Validate"
    /\ IF validators[at] = NilValidator
       THEN UNCHANGED <<errs, ran>>
       ELSE /\ ran' = Append(ran, at)
            /\ errs' = ErrorsAdd(errs, CheckerValidate(validators[at]))
    /\ at' = at + 1
    /\ tpc' = IF at = Len(validators) THEN "return" ELSE "loop"
    /\ UNCHANGED <<valuerVars, libVars, validators, op, hasOk, out>>

\* What Validate returns after the loop.
validateReturn(errors) ==
    IF ErrorsIsEmpty(errors) THEN NoErr
    ELSE [kind |-> "Errors", errors |-> errors]

ValidateReturn ==
    /\ tpc = "return"
    /\ op = "Validate"
    /\ out' = Returned(validateReturn(errs))
    /\ tpc' = "done"
    /\ UNCHANGED <<valuerVars, libVars, validators, op, at, errs, hasOk, ran>>

\* Some(validators...)(): the call of the Checker Some returns.
SomeCall ==
    /\ tpc = "idle"
    /\ \E validations \in ValidatorLists :
        /\ validators' = validations
        /\ tpc' = IF validations = <<>> THEN "return" ELSE "loop"
    /\ op' = "Some"
    /\ errs' = <<>>
    /\ hasOk' = FALSE
    /\ at' = 1
    /\ UNCHANGED <<valuerVars, libVars, ran, out>>

\* One turn of the loop of Some; Validate() of a nil validator panics.
SomeStep ==
    /\ tpc = "loop"
    /\ op = "Some"
    /\ IF validators[at] = NilValidator
       THEN /\ out' = Panicked
            /\ tpc' = "done"
            /\ UNCHANGED <<errs, hasOk, ran, at>>
       ELSE /\ ran' = Append(ran, at)
            /\ LET err == CheckerValidate(validators[at]) IN
                IF err # NoErr
                THEN errs' = ErrorsAdd(errs, err) /\ UNCHANGED hasOk
                ELSE hasOk' = TRUE /\ UNCHANGED errs
            /\ at' = at + 1
            /\ tpc' = IF at = Len(validators) THEN "return" ELSE "loop"
            /\ UNCHANGED out
    /\ UNCHANGED <<valuerVars, libVars, validators, op>>

IsSpace(token) == token \in {"", " ", "  "}

Front(seq) == SubSeq(seq, 1, Len(seq) - 1)

RECURSIVE trimRight(_)
trimRight(line) ==
    IF line = <<>> THEN <<>>
    ELSE IF IsSpace(line[Len(line)]) THEN trimRight(Front(line)) ELSE line

RECURSIVE trimLeft(_)
trimLeft(line) ==
    IF line = <<>> THEN <<>>
    ELSE IF IsSpace(Head(line)) THEN trimLeft(Tail(line)) ELSE line

RECURSIVE trimSpaceRight(_)
trimSpaceRight(text) ==
    LET last == trimRight(text[Len(text)]) IN
    IF last # <<>> THEN Front(text) \o <<last>>
    ELSE IF Len(text) = 1 THEN << <<>> >>
    ELSE trimSpaceRight(Front(text))

RECURSIVE trimSpaceLeft(_)
trimSpaceLeft(text) ==
    LET first == trimLeft(Head(text)) IN
    IF first # <<>> THEN <<first>> \o Tail(text)
    ELSE IF Len(text) = 1 THEN << <<>> >>
    ELSE trimSpaceLeft(Tail(text))

\* strings.TrimSpace on the lines of a string
TrimSpace(text) == trimSpaceLeft(trimSpaceRight(text))

Header == <<"at least one of the following must pass:">>

\* The message Some builds from the lines of errs.Error().
someMessage(lines) ==
    TrimSpace(<<Header>>
              \o [j \in DOMAIN lines |-> <<"  ">> \o lines[j]]
              \o << <<>> >>)

\* What Some returns after the loop; groups and order are the orders in which
\* the maps of the rendering are walked.
someReturn(errors, ok, groups, order) ==
    IF ok \/ ErrorsIsEmpty(errors) THEN NoErr
    ELSE errorsNew(someMessage(ErrorsString(errors, groups, order)))

SomeReturn ==
    /\ tpc = "return"
    /\ op = "Some"
    /\ \E groups \in Orders(Fields(errs)), order \in Orders(ParamKeys) :
        out' = Returned(someReturn(errs, hasOk, groups, order))
    /\ tpc' = "done"
    /\ UNCHANGED <<valuerVars, libVars, validators, op, at, errs, hasOk, ran>>

InitTop ==
    /\ TopIdle
    /\ LibIdle
    /\ v = Value(NilValue, "name", "Name")
    /\ pc = "idle"
    /\ i = 0
    /\ invoked = <<>>
    /\ returned = <<>>
    /\ result = NoResult
    /\ ruleErr = NoErr
    /\ handled = <<>>
    /\ rest = {}
    /\ m = NoMatcher
    /\ called = <<>>

NextTop ==
    \/ ValidateCall \/ ValidateStep \/ ValidateReturn
    \/ SomeCall \/ SomeStep \/ SomeReturn

SpecTop == InitTop /\ [][NextTop]_vars

\* ---------------------------------------------------------------- IndexBy
\* The members of a group, as far as is.Empty tells them apart.
GroupItems == {Val("int", 0, TRUE), Val("int", 1, FALSE)}

Groups == UNION {[1..n -> GroupItems] : n \in 0..MaxMembers}

GroupLists == UNION {[1..n -> Groups] : n \in 0..MaxGroups}

\* The inner loop of IndexBy: the members counted before the first empty one.
RECURSIVE countItems(_)
countItems(items) ==
    IF items = <<>> \/ IsEmpty(Head(items)) THEN 0
    ELSE 1 + countItems(Tail(items))

\* selected choosing a group that is full or wholly empty.
selectedAllOrNone(items) ==
    \/ countItems(items) > 0 /\ countItems(items) = Len(items)
    \/ \A n \in DOMAIN items : IsEmpty(items[n])

\* selected without the test count > 0.
selectedAnyCount(items) == countItems(items) = Len(items)

\* The test that ends the outer loop of IndexBy.
selected(items) == countItems(items) > 0 /\ countItems(items) = Len(items)

\* IndexBy(&index, values, options...) and the call of the Checker it returns.
IndexByCall ==
    /\ ibpc = "idle"
    /\ \E values \in GroupLists : ibValues' = values
    /\ \E options \in OptionLists : ibOptions' = options
    /\ gi' = 1
    /\ ibpc' = "loop"
    /\ UNCHANGED <<valuerVars, topVars, esVars, strVars, raceVars, index, ibOut>>

\* One turn of the outer loop.
IndexByStep ==
    /\ ibpc = "loop"
    /\ gi <= Len(ibValues)
    /\ IF selected(ibValues[gi])
       THEN /\ index' = gi - 1
            /\ ibOut' = Returned(NoErr)
            /\ ibpc' = "done"
            /\ UNCHANGED gi
       ELSE /\ gi' = gi + 1
            /\ UNCHANGED <<index, ibOut, ibpc>>
    /\ UNCHANGED <<valuerVars, topVars, esVars, strVars, raceVars, ibValues, ibOptions>>

\* The return after the loop.
IndexByFail ==
    /\ ibpc = "loop"
    /\ gi > Len(ibValues)
    /\ ibOut' = Returned(NewError("index_by", ibOptions))
    /\ ibpc' = "done"
    /\ UNCHANGED <<valuerVars, topVars, esVars, strVars, raceVars, ibValues, ibOptions, index, gi>>

NextIndexBy == IndexByCall \/ IndexByStep \/ IndexByFail

SpecIndexBy == InitTop /\ [][NextIndexBy]_vars

\* ---------------------------------------------------------------- Errors, alone
\* A nil pointer of type *Error, handed over as an error.
NilError == [kind |-> "nil *Error"]

\* The errors handed to Add: nil, Errors of this engine, collections of
\* zero, one and two of them, the receiver itself, and errors of other types.
AddArgs(receiver) ==
    {NoErr, Foreign, NilError,
     Failure("name", "Name", "required"), Failure("age", "Age", "required"),
     [kind |-> "Errors", errors |-> <<>>],
     [kind |-> "Errors", errors |-> <<Failure("age", "Age", "required_if")>>],
     [kind |-> "Errors",
      errors |-> <<Failure("name", "Name", "required_if"),
                   Failure("age", "Age", "required")>>],
     [kind |-> "Errors", errors |-> receiver]}

\* e.Add(err)
Add ==
    /\ adds < MaxAdds
    /\ renders = <<>>
    /\ \E err \in AddArgs(coll) :
        /\ added' = err
        /\ coll' = ErrorsAdd(coll, err)
    /\ before' = coll
    /\ adds' = adds + 1
    /\ UNCHANGED <<valuerVars, topVars, ibVars, strVars, raceVars, renders>>

\* e.String(), called at most twice on the collection as it stands. The map
\* of ToMap is walked in an order the runtime picks, and so is the map of
\* params of each Error.
String ==
    /\ Len(renders) < 2
    /\ \E groups \in Orders(Fields(coll)), order \in Orders(ParamKeys) :
        renders' = Append(renders, ErrorsString(coll, groups, order))
    /\ UNCHANGED <<valuerVars, topVars, ibVars, strVars, raceVars, coll, before, added, adds>>

NextErrors == Add \/ String

SpecErrors == InitTop /\ [][NextErrors]_vars

\* ---------------------------------------------------------------- Error.String, alone
\* Templates given with ErrorFormat; none: the template of the code, if any.
Formats ==
    {<<>>,
     <<"{label}", " must be greater than ", "{min}">>,
     <<"{min}", " to ", "{max}">>,
     <<"{label}", " is ", "{unknown}">>}

\* Lists of ErrorParam options: values of min and max, as texts.
ParamLists ==
    {<<>>} \cup
    {<<ErrorParam("min", a)>> : a \in {<<"18">>, <<"{max}">>, <<"{label}">>}}
    \cup {<<ErrorParam("min", a), ErrorParam("max", b)>> :
            a \in {<<"18">>, <<"{max}">>, <<"{label}">>},
            b \in {<<"65">>, <<"{min}">>}}

\* Codes without a translator function: one with a registered template and
\* one without an entry.
PlainCodes == {"greater_than", "custom"}

Labels == {"age", "{min}"}

\* An Error as a Valuer makes it, and the entry of its String(): the
\* template is chosen and params is copied, with label and value set.
StringBegin ==
    /\ spc = "idle"
    /\ \E code \in PlainCodes, format \in Formats, params \in ParamLists,
          label \in Labels :
        LET e == newError(
                    Value(Val("int", 1, FALSE), "age", label), code,
                    (IF format = <<>> THEN <<>> ELSE <<ErrorFormat(format)>>)
                        \o params)
            found == e.code \in DOMAIN translations
        IN  /\ serr' = e
            /\ smsg' = IF found /\ e.format = <<>>
                       THEN translations[e.code].message ELSE e.format
            /\ sparams' = StringParams(e)
            /\ stodo' = {p.key : p \in StringParams(e)}
    /\ spc' = "loop"
    /\ UNCHANGED <<valuerVars, topVars, ibVars, esVars, raceVars>>

\* One turn of the loop over params: the map is walked in any order.
StringStep ==
    /\ spc = "loop"
    /\ \E key \in stodo :
        /\ smsg' = ReplaceAll(smsg, key, ParamValue(sparams, key))
        /\ stodo' = stodo \ {key}
    /\ UNCHANGED <<valuerVars, topVars, ibVars, esVars, raceVars, serr, sparams, spc>>

\* return message
StringReturn ==
    /\ spc = "loop"
    /\ stodo = {}
    /\ spc' = "done"
    /\ UNCHANGED <<valuerVars, topVars, ibVars, esVars, raceVars, serr, smsg, sparams, stodo>>

NextString == StringBegin \/ StringStep \/ StringReturn

SpecString == InitTop /\ [][NextString]_vars

\* ---------------------------------------------------------------- concurrent Validate()
\* merge(options, presets...)
merge(options, presets) == presets \o options

\* A slice header that was read or written while another thread wrote it:
\* pointer, length and capacity need not belong together.
Torn == <<[opt |-> "torn"]>>

\* The outcome of using a torn slice: anything, a crash included.
Undefined == [kind |-> "undefined"]

Kinds == {"int", "string"}

\* Value(...).Typeof(kind, options...) or Value(...).IsEmail(): the Valuer is
\* built by one thread, then two threads call Validate() on it.
Share ==
    /\ \A t \in Threads : th[t].pc = "idle"
    /\ \E kind \in Kinds, options \in OptionLists,
          rule \in {[kind |-> "typeof", want |-> k] : k \in Kinds}
                    \cup {[kind |-> "simple", code |-> "is_email",
                           options |-> <<>>, ok |-> b] : b \in BOOLEAN} :
        /\ shared' = [Value(Val(kind, 1, FALSE), "name", "Name")
                        EXCEPT !.rules = <<rule>>]
        /\ captured' = options
        /\ options0' = options
    /\ th' = [t \in Threads |-> [th[t] EXCEPT !.pc = "start"]]
    /\ UNCHANGED <<valuerVars, topVars, ibVars, esVars, strVars, accessed>>

\* Validate() up to the call of the rule, and the rule up to its first
\* access of `options`: v.value and v.rules are read.
ThreadValidate(t) ==
    /\ th[t].pc = "start"
    /\ accessed' = accessed \cup {<<t, "v.value", "r">>, <<t, "v.rules", "r">>}
    /\ LET rule == shared.rules[1] IN
        IF rule.kind = "simple"
        THEN th' = [th EXCEPT ![t].pc = "done",
                        ![t].res = Returned(simpleRule(shared, rule, rule.ok))]
        ELSE IF shared.value.kind = rule.want
        THEN th' = [th EXCEPT ![t].pc = "done", ![t].res = Returned(NoErr)]
        ELSE th' = [th EXCEPT ![t].pc = "merge"]
    /\ UNCHANGED <<valuerVars, topVars, ibVars, esVars, strVars, shared, captured, options0>>

\* merge(options, ErrorParam("kind", kind)): `options` is read.
ThreadMerge(t) ==
    /\ th[t].pc = "merge"
    /\ accessed' = accessed \cup {<<t, "options", "r">>}
    /\ th' = [th EXCEPT
            ![t].pc = "write",
            ![t].local =
                IF captured = Torn THEN Torn
                ELSE merge(captured,
                           <<ErrorParam("kind", <<shared.rules[1].want>>)>>)]
    /\ UNCHANGED <<valuerVars, topVars, ibVars, esVars, strVars, shared, captured, options0>>

\* options = ...: the write of the three words of the slice header begins.
ThreadWriteBegin(t) ==
    /\ th[t].pc = "write"
    /\ accessed' = accessed \cup {<<t, "options", "w">>}
    /\ captured' = Torn
    /\ th' = [u \in Threads |->
                IF u = t
                THEN [th[u] EXCEPT !.pc = "writing",
                        !.overlap = \E w \in Threads \ {t} : th[w].pc = "writing"]
                ELSE IF th[u].pc = "writing"
                THEN [th[u] EXCEPT !.overlap = TRUE]
                ELSE th[u]]
    /\ UNCHANGED <<valuerVars, topVars, ibVars, esVars, strVars, shared, options0>>

\* The write ends: the header is the one written, unless the write of
\* another thread overlapped it.
ThreadWriteEnd(t) ==
    /\ th[t].pc = "writing"
    /\ \E header \in {th[t].local} \cup (IF th[t].overlap THEN {Torn} ELSE {}) :
        captured' = header
    /\ th' = [th EXCEPT ![t].pc = "newError"]
    /\ UNCHANGED <<valuerVars, topVars, ibVars, esVars, strVars, shared, options0, accessed>>

\* return v.newError("typeof", options): `options` is read again.
ThreadNewError(t) ==
    /\ th[t].pc = "newError"
    /\ accessed' = accessed \cup {<<t, "options", "r">>}
    /\ th' = [th EXCEPT
            ![t].pc = "done",
            ![t].res = IF captured = Torn THEN Undefined
                       ELSE Returned(newError(shared, "typeof", captured))]
    /\ UNCHANGED <<valuerVars, topVars, ibVars, esVars, strVars, shared, captured, options0>>

NextThreads ==
    \/ Share
    \/ \E t \in Threads :
        \/ ThreadValidate(t) \/ ThreadMerge(t)
        \/ ThreadWriteBegin(t) \/ ThreadWriteEnd(t) \/ ThreadNewError(t)

SpecThreads == InitTop /\ [][NextThreads]_vars

Next ==
    \/ Required \/ RequiredIf \/ RequiredWith
    \/ simple \/ Custom \/ ValuerEvery \/ ValuerSome \/ ValuerMatch
    \/ ValidateBegin \/ RequireStep \/ RuleReturn
    \/ SimpleRule \/ CustomRule
    \/ ItemizeBegin \/ ItemStep \/ ItemizeEnd
    \/ MatchBegin \/ Branch \/ Fallback \/ MatcherValidate

Spec == Init /\ [][Next]_vars

\* ---------------------------------------------------------------- properties
Applicable == IF IsEmpty(v.value) THEN v.requires ELSE v.rules

\* C1: an evaluation of a Valuer invokes checks of one list only: checks of
\* requires when the bound value is empty, rules when it is not.
C1_OnlyApplicableList ==
    \A j \in DOMAIN invoked :
        invoked[j].list = IF IsEmpty(v.value) THEN "requires" ELSE "rules"

\* An empty value with a require check and a rule: the require check ran.
C1_Witness ==
    /\ pc = "done"
    /\ IsEmpty(v.value)
    /\ v.requires # <<>>
    /\ v.rules # <<>>
    /\ invoked # <<>>

\* C2: the checks of the applicable list are invoked in insertion order; the
\* first error a check returns ends the evaluation and is the result; no
\* check is invoked after it; with no failing check the result is no error.
C2_FirstErrorStops ==
    /\ Len(returned) <= Len(invoked)
    /\ \A j \in DOMAIN invoked : invoked[j].idx = j
    /\ \A j \in DOMAIN returned :
        /\ invoked[j].list = "requires" =>
                returned[j] = require(v, v.requires[j])
        /\ returned[j] # NoErr =>
                /\ j = Len(invoked)
                /\ pc = "done"
                /\ result = Returned(returned[j])
    /\ pc = "done" =>
        /\ result.kind = "returned"
        /\ Len(returned) = Len(invoked)
        /\ IF result.err # NoErr
           THEN returned # <<>> /\ returned[Len(returned)] = result.err
           ELSE /\ \A j \in DOMAIN returned : returned[j] = NoErr
                /\ Len(invoked) \in {0, Len(Applicable)}
                /\ Len(invoked) = 0 =>
                        Applicable = <<>> \/ whichList(v) = "none"

\* Required checks [A, B] on an empty value: A failed, the result is A's
\* error, and B, which would have returned another error, was not invoked.
C2_Witness ==
    /\ pc = "done"
    /\ IsEmpty(v.value)
    /\ Len(v.requires) = 2
    /\ Len(invoked) = 1
    /\ result.err # NoErr
    /\ result.err = require(v, v.requires[1])
    /\ require(v, v.requires[2]) # NoErr
    /\ require(v, v.requires[2]) # result.err

AllNonEmpty(values) == \A n \in DOMAIN values : ~IsEmpty(values[n])
SomeNonEmpty(values) == \E n \in DOMAIN values : ~IsEmpty(values[n])

\* The invoked require checks that RequiredWith added.
WithChecks ==
    {j \in DOMAIN returned :
        invoked[j].list = "requires" /\ v.requires[j].kind = "required_with"}

\* C3 as claimed: a RequiredWith check that was given other values and is
\* evaluated on an empty value returns an error if and only if all of
\* otherValues are non-empty, and no error whenever one of them is empty.
C3_FailsIffAllNonEmpty ==
    \A j \in WithChecks :
        v.requires[j].values # <<>> =>
            /\ returned[j] # NoErr <=> AllNonEmpty(v.requires[j].values)
            /\ ~AllNonEmpty(v.requires[j].values) => returned[j] = NoErr

\* C3: a RequiredWith check, evaluated on an empty value, returns a
\* validation error (code "required_with") if and only if at least one of
\* otherValues is non-empty; it returns no error when all of them are empty
\* or none is given.
C3_FailsIffSomeNonEmpty ==
    \A j \in WithChecks :
        /\ returned[j] # NoErr <=> SomeNonEmpty(v.requires[j].values)
        /\ returned[j] # NoErr =>
                returned[j].kind = "Error" /\ returned[j].code = "required_with"

\* A RequiredWith check failed although one of its values is empty.
C3_Witness ==
    \E j \in WithChecks :
        /\ returned[j] # NoErr
        /\ SomeNonEmpty(v.requires[j].values)
        /\ ~AllNonEmpty(v.requires[j].values)

\* The rule that is being invoked, or has just returned or panicked.
InRule(kind) ==
    /\ pc \in {"itemize", "itemized", "match", "ruled", "panic"}
    /\ i \in DOMAIN v.rules
    /\ v.rules[i].kind = kind

Success(res) == res \in {ResBool(TRUE), ResNil}

\* C4: Valuer.Some returns no error as soon as the handler's answer for one
\* item is a success (true or nil), without handling a later item; it
\* returns the error "some" only when every item was handled and none
\* succeeded.
C4_SomeSucceedsOnFirstSuccess ==
    (InRule("itemize") /\ ~v.rules[i].every) =>
        /\ \A j \in DOMAIN handled :
                Success(handled[j].res) => j = Len(handled)
        /\ pc = "ruled" =>
            /\ (\E j \in DOMAIN handled : Success(handled[j].res)) =>
                    ruleErr = NoErr
            /\ (ruleErr.kind = "Error" /\ ruleErr.code = "some") =>
                    /\ rest = {}
                    /\ \A j \in DOMAIN handled : ~Success(handled[j].res)

\* C5: under Valuer.Some an answer of false is neither a panic nor an
\* immediate error: the loop goes on with the next item, and the rule fails
\* (with "some") only once no item is left.
C5_SomeFalseContinues ==
    (/\ InRule("itemize")
     /\ ~v.rules[i].every
     /\ handled # <<>>
     /\ handled[Len(handled)].res = ResBool(FALSE)) =>
        /\ pc # "panic"
        /\ pc \in {"itemized", "ruled"} => rest = {}

Pass(res) == res \in {ResBool(TRUE), ResNil, ResValidatable(NoErr)}

Fail(res) ==
    \/ res = ResBool(FALSE)
    \/ res.t = "error"
    \/ res.t = "validatable" /\ res.err # NoErr

\* C6: Valuer.Every handles the elements of a sequence in index order and
\* stops at the first element that does not pass; a failing element makes
\* the rule return exactly one Error, that element's (code "every" for an
\* answer of false); the rule returns no error only if every element was
\* handled and passed.
C6_EveryStopsAtFirstFailure ==
    (InRule("itemize") /\ v.rules[i].every /\ Deref(v.value).kind = "seq") =>
        /\ \A j \in DOMAIN handled : handled[j].item = j
        /\ \A j \in DOMAIN handled :
                ~Pass(handled[j].res) =>
                    j = Len(handled) /\ pc \in {"ruled", "panic"}
        /\ pc = "panic" => handled[Len(handled)].res = ResOther
        /\ pc \in {"itemized", "ruled"} =>
                \A j \in DOMAIN handled : handled[j].res # ResOther
        /\ pc = "ruled" =>
            LET last == handled[Len(handled)].res IN
            IF Fail(last)
            THEN /\ ruleErr.kind = "Error"
                 /\ last = ResBool(FALSE) =>
                        /\ ruleErr.code = "every"
                        /\ ruleErr.field = v.field
                        /\ ruleErr.error = NoErr
                 /\ (last # ResBool(FALSE) /\ last.err.kind = "Error") =>
                        ruleErr = last.err
                 /\ (last # ResBool(FALSE) /\ last.err.kind # "Error") =>
                        ruleErr.error = last.err
            ELSE /\ ruleErr = NoErr
                 /\ Len(handled) = Deref(v.value).x
                 /\ \A j \in DOMAIN handled : Pass(handled[j].res)

\* [valid, valid, invalid]: three items handled, the failure is the third's.
C6_Witness ==
    /\ InRule("itemize")
    /\ v.rules[i].every
    /\ pc = "ruled"
    /\ v.value = Val("seq", 3, FALSE)
    /\ Len(handled) = 3
    /\ handled[1].res = ResBool(TRUE)
    /\ handled[2].res = ResBool(TRUE)
    /\ handled[3] = [item |-> 3, res |-> ResBool(FALSE)]
    /\ ruleErr.code = "every"

\* The error is bound to the validator's field, label and value.
Bound(err) ==
    /\ err.kind = "Error"
    /\ err.field = v.field
    /\ err.label = v.label
    /\ err.value = v.value

\* C7: a Custom rule (given no option that overrides the code): false gives
\* a new Error with the rule's code, bound to the validator; true and nil
\* give no error; an *Error or *Errors is returned unchanged; another error
\* gives an Error with the rule's code that carries it as cause; any other
\* answer panics and yields no validation error.
C7_CustomOutcomes ==
    (InRule("custom") /\ pc \in {"ruled", "panic"}) =>
        LET res == handled[1].res
            rule == v.rules[i]
        IN  /\ ~IsEmpty(v.value)
            /\ res = ResBool(FALSE) =>
                /\ pc = "ruled"
                /\ Bound(ruleErr)
                /\ ruleErr.error = NoErr
                /\ rule.options = <<>> => ruleErr.code = rule.code
            /\ res \in {ResBool(TRUE), ResNil} =>
                pc = "ruled" /\ ruleErr = NoErr
            /\ (res.t = "error" /\ res.err.kind \in {"Error", "Errors"}) =>
                pc = "ruled" /\ ruleErr = res.err
            /\ (res.t = "error" /\ res.err.kind \notin {"Error", "Errors"}) =>
                /\ pc = "ruled"
                /\ Bound(ruleErr)
                /\ ruleErr.error = res.err
                /\ rule.options = <<>> => ruleErr.code = rule.code
            /\ res.t \notin {"bool", "nil", "error"} =>
                /\ pc = "panic"
                /\ ruleErr = NoErr
                /\ result = Panicked

\* A Custom check returned an error of another type and it was wrapped.
C7_Witness ==
    /\ InRule("custom")
    /\ pc = "ruled"
    /\ handled[1].res = ResError(Foreign)
    /\ ruleErr.code = "code"
    /\ ruleErr.error = Foreign

Matching == {j \in DOMAIN m.branches : m.branches[j].value = m.value}

\* C8: Matcher.Validate() invokes exactly the handler of the first branch
\* whose candidate equals the bound value; without such a branch the
\* fallback if one is set; otherwise nothing, and it returns no error.
C8_FirstMatchingBranch ==
    (InRule("match") /\ pc = "ruled") =>
        /\ m.value = v.value
        /\ IF Matching # {} THEN called = <<Min(Matching)>>
           ELSE IF m.fallback THEN called = <<0>>
           ELSE called = <<>> /\ ruleErr = NoErr

\* Value 2 with branches [(1, h1), (2, h2)]: h2 alone was invoked.
C8_Witness ==
    /\ InRule("match")
    /\ pc = "ruled"
    /\ m.value = Val("int", 2, FALSE)
    /\ Len(m.branches) = 2
    /\ m.branches[1].value = Val("int", 1, FALSE)
    /\ m.branches[2].value = Val("int", 2, FALSE)
    /\ called = <<2>>

\* The failures an error returned by a validator stands for.
FailuresOf(err) ==
    CASE err = NoErr -> <<>>
      [] err.kind = "Errors" -> err.errors
      [] err.kind = "Error" -> <<err>>
      [] OTHER -> <<[ZeroError("") EXCEPT !.error = err]>>

Passes(validator) == validator # NilValidator /\ validator.ret = NoErr
Fails(validator) == validator # NilValidator /\ validator.ret # NoErr

\* The failures of the validators from..Len, in validator order.
RECURSIVE FailuresFrom(_, _)
FailuresFrom(vals, from) ==
    IF from > Len(vals) THEN <<>>
    ELSE (IF Fails(vals[from]) THEN FailuresOf(vals[from].ret) ELSE <<>>)
         \o FailuresFrom(vals, from + 1)

Ascending(seq) == \A a, b \in DOMAIN seq : a < b => seq[a] < seq[b]

IsBlank(line) == \A j \in DOMAIN line : IsSpace(line[j])

\* The message lists the failure: each line of the failure's own message
\* is a line of it.
Lists(msg, failure) ==
    \A order \in Orders(ParamKeys) :
        LET lines == ErrorError(failure, order) IN
        \A a \in DOMAIN lines :
            ~IsBlank(lines[a]) =>
                \E b \in DOMAIN msg : msg[b] = <<"  ">> \o lines[a]

\* C10: the top-level Some returns no error whenever one of the validators
\* passes; when every validator fails it returns an error whose message
\* lists the failure of each of them.
C10_SomeListsEveryFailure ==
    (op = "Some" /\ tpc = "done" /\ out.kind = "returned") =>
        /\ (\E j \in DOMAIN validators : Passes(validators[j])) =>
                out.err = NoErr
        /\ (validators # <<>> /\ \A j \in DOMAIN validators : Fails(validators[j])) =>
                /\ out.err # NoErr
                /\ LET failures == FailuresFrom(validators, 1) IN
                    \A j \in DOMAIN failures : Lists(out.err.msg, failures[j])

Full(items) == items # <<>> /\ AllNonEmpty(items)

FullGroups == {j \in DOMAIN ibValues : Full(ibValues[j])}

\* C11: IndexBy selects the first group, in group order, that has members
\* all of which are non-empty: it stores that group's index through the
\* output parameter and returns no error. A group whose members are all
\* empty or only partly non-empty is passed over, and when no group is
\* selected it fails with code "index_by" (given no option that overrides
\* the code) and leaves the output parameter alone.
C11_IndexBySelectsFirstFull ==
    ibpc = "done" =>
        IF FullGroups # {}
        THEN /\ ibOut = Returned(NoErr)
             /\ index = Min(FullGroups) - 1
        ELSE /\ ibOut.err.kind = "Error"
             /\ ibOptions = <<>> => ibOut.err.code = "index_by"
             /\ index = NoIndex

\* [["", ""], ["a", "b"]] selects index 1.
C11_Witness ==
    /\ ibpc = "done"
    /\ Len(ibValues) = 2
    /\ Len(ibValues[1]) = 2
    /\ \A n \in DOMAIN ibValues[1] : IsEmpty(ibValues[1][n])
    /\ Len(ibValues[2]) = 2
    /\ AllNonEmpty(ibValues[2])
    /\ index = 1
    /\ ibOut = Returned(NoErr)

\* A group is fully determined: all of its members are non-empty or none is.
Determined(items) ==
    AllNonEmpty(items) \/ \A n \in DOMAIN items : IsEmpty(items[n])

DeterminedGroups == {j \in DOMAIN ibValues : Determined(ibValues[j])}

\* C12 as claimed: for groups that have members, IndexBy selects the first
\* fully determined group (all members non-empty, or all empty) and fails
\* only if no group is fully determined.
C12_IndexBySelectsFirstDetermined ==
    (ibpc = "done" /\ \A j \in DOMAIN ibValues : ibValues[j] # <<>>) =>
        IF DeterminedGroups # {}
        THEN /\ ibOut = Returned(NoErr)
             /\ index = Min(DeterminedGroups) - 1
        ELSE ibOut.err # NoErr

\* C12: IndexBy fails if and only if no group has members that are all
\* non-empty; a group whose members are all empty is never selected, also
\* when it comes first; on success the recorded index is that of a group
\* with all members non-empty, and no earlier group is one.
C12_IndexByFailsIffNoFullGroup ==
    ibpc = "done" =>
        /\ ibOut.kind = "returned"
        /\ ibOut.err # NoErr <=> \A j \in DOMAIN ibValues : ~Full(ibValues[j])
        /\ ibOut.err = NoErr =>
            /\ index + 1 \in DOMAIN ibValues
            /\ Full(ibValues[index + 1])
            /\ ~\A n \in DOMAIN ibValues[index + 1] : IsEmpty(ibValues[index + 1][n])
            /\ \A j \in 1..index : ~Full(ibValues[j])

\* A group of empty members that comes first, and alone, is not selected.
C12_Witness ==
    /\ ibpc = "done"
    /\ Len(ibValues) = 1
    /\ Len(ibValues[1]) = 2
    /\ \A n \in DOMAIN ibValues[1] : IsEmpty(ibValues[1][n])
    /\ ibOut.err # NoErr
    /\ index = NoIndex

\* C13: the sequence of an Errors collection holds single Errors only, after
\* any calls of Add: Add(nil) leaves it unchanged; Add of a collection of n
\* elements appends exactly these n elements in their order; Add of any
\* other error appends exactly one element (the *Error itself, or an Error
\* that carries the error as cause); the elements present before keep their
\* positions.
C13_AddFlattens ==
    /\ \A j \in DOMAIN coll :
        coll[j].kind = "Error" /\ coll[j].error.kind # "Errors"
    /\ adds > 0 =>
        /\ SubSeq(coll, 1, Len(before)) = before
        /\ CASE added = NoErr -> coll = before
             [] added.kind = "Errors" ->
                    /\ Len(coll) = Len(before) + Len(added.errors)
                    /\ SubSeq(coll, Len(before) + 1, Len(coll)) = added.errors
             [] OTHER ->
                    /\ Len(coll) = Len(before) + 1
                    /\ IF added.kind = "Error"
                       THEN coll[Len(coll)] = added
                       ELSE coll[Len(coll)].error = added

\* A collection of two elements was added to a collection that held some:
\* the count grew by two.
C13_Witness ==
    /\ adds > 1
    /\ before # <<>>
    /\ added.kind = "Errors"
    /\ Len(added.errors) = 2
    /\ Len(coll) = Len(before) + 2
    /\ coll[Len(coll)] = added.errors[2]

\* C14: two renderings of the same Errors collection are the same text, also
\* when it holds errors of two or more distinct fields.
C14_StringDeterministic ==
    \A a, b \in DOMAIN renders : renders[a] = renders[b]

\* The template the String() of e starts from.
Template(e) ==
    IF e.code \in DOMAIN translations /\ e.format = <<>>
    THEN translations[e.code].message ELSE e.format

\* One literal pass over a template: each token {name} that has a parameter
\* gives way to the parameter's text, and nothing else changes.
RECURSIVE SinglePass(_, _)
SinglePass(template, params) ==
    IF template = <<>> THEN <<>>
    ELSE LET hits == {p \in params : "{" \o p.key \o "}" = Head(template)} IN
         (IF hits = {} THEN <<Head(template)>>
          ELSE (CHOOSE p \in hits : TRUE).value)
         \o SinglePass(Tail(template), params)

\* C15: with no translator, Error.String() returns the template after one
\* literal pass of substitution: every token {name} of the template that has
\* a parameter is replaced by the parameter's text, inserted text is not
\* scanned again, tokens without a parameter remain, and the order in which
\* the parameters are walked does not matter.
C15_SinglePassSubstitution ==
    spc = "done" => smsg = SinglePass(Template(serr), StringParams(serr))

\* C16: when the handler of Valuer.Every or Valuer.Some returns a nested
\* validator, the outcome of that validator is the outcome of the element:
\* one that returns an error fails the element and the rule; one that
\* returns no error is a success, which under Some ends the iteration and
\* makes the rule return no error.
C16_NestedValidatorOutcome ==
    (InRule("itemize") /\ handled # <<>>) =>
        LET last == handled[Len(handled)].res IN
        /\ \A j \in DOMAIN handled :
            (handled[j].res.t = "validatable" /\ handled[j].res.err # NoErr) =>
                j = Len(handled) /\ pc = "ruled" /\ ruleErr # NoErr
        /\ ~v.rules[i].every =>
            \A j \in DOMAIN handled :
                handled[j].res = ResValidatable(NoErr) => j = Len(handled)
        /\ (pc = "ruled" /\ last = ResValidatable(NoErr)) => ruleErr = NoErr

\* Two threads accessed one location, one of them writing; nothing orders
\* the accesses of the two calls of Validate().
DataRace ==
    \E a, b \in accessed : a[1] # b[1] /\ a[2] = b[2] /\ "w" \in {a[3], b[3]}

\* What Validate() on the shared Valuer returns when it runs alone.
Alone ==
    LET rule == shared.rules[1] IN
    IF rule.kind = "simple"
    THEN Returned(simpleRule(shared, rule, rule.ok))
    ELSE IF shared.value.kind = rule.want THEN Returned(NoErr)
    ELSE Returned(newError(shared, "typeof",
            merge(options0, <<ErrorParam("kind", <<rule.want>>)>>)))

\* C17: when two threads call Validate() on one built Valuer, no evaluation
\* writes what the other reads or writes, so there is no data race, and each
\* call returns what it returns when run alone, for every rule kind, Typeof
\* included.
C17_ConcurrentValidateSafe ==
    /\ ~DataRace
    /\ \A t \in Threads : th[t].pc = "done" => th[t].res = Alone

====
